---- MODULE Spec2Model ----
(***************************************************************************)
(* Model of streamlit_kpi_dashboard.py: the status normalisation and       *)
(* aggregation pipeline (normalize_and_derive_flags, clean_and_filter,     *)
(* build_summary, the per-dev-group rollup) and the memoized loader        *)
(* load_df with its persisted copy at RESERVED_CSV_PATH.                   *)
(*                                                                         *)
(* A string is a sequence of one-character strings, so that strip, upper   *)
(* and lower are computed character by character.  A DataFrame is a record *)
(* [cols, rows]: the set of column names and the sequence of rows, each    *)
(* row a function from the column names to cell values.                    *)
(***************************************************************************)
EXTENDS Integers, Sequences, FiniteSets, TLC

VARIABLES
    pc,                \* position of the script run
    loaded,            \* the table load_df returned at line 173 (kept for reference)
    df_raw,            \* df_raw of the script (line 173, reassigned at line 180)
    projects,          \* line 182
    group_names,       \* line 183
    proj_sel,          \* line 185
    dev_sel,           \* line 186
    df,                \* line 188
    summary,           \* line 189
    summary_by_group,  \* lines 238-246
    reserved_csv,      \* content of the file at RESERVED_CSV_PATH
    cache,             \* st.cache_data entries of load_df, by argument
    uploaded,          \* argument of the latest load_df call
    returned,          \* value the latest load_df call returned
    last_supplied      \* the dataset most recently supplied as an upload

vars == <<pc, loaded, df_raw, projects, group_names, proj_sel, dev_sel, df,
          summary, summary_by_group, reserved_csv, cache, uploaded, returned,
          last_supplied>>

pipeVars == <<pc, loaded, df_raw, projects, group_names, proj_sel, dev_sel, df,
              summary, summary_by_group>>

loadVars == <<reserved_csv, cache, uploaded, returned, last_supplied>>

----------------------------------------------------------------------------
\* Bounds

MaxRows == 2
NumDatasets == 3

----------------------------------------------------------------------------
\* Strings

LowerAlpha == <<"a","b","c","d","e","f","g","h","i","j","k","l","m",
                "n","o","p","q","r","s","t","u","v","w","x","y","z">>
UpperAlpha == <<"A","B","C","D","E","F","G","H","I","J","K","L","M",
                "N","O","P","Q","R","S","T","U","V","W","X","Y","Z">>

Whitespace == {" ", "\t"}

upper_char(c) ==
    IF \E i \in DOMAIN LowerAlpha : LowerAlpha[i] = c
    THEN UpperAlpha[CHOOSE i \in DOMAIN LowerAlpha : LowerAlpha[i] = c]
    ELSE c

lower_char(c) ==
    IF \E i \in DOMAIN UpperAlpha : UpperAlpha[i] = c
    THEN LowerAlpha[CHOOSE i \in DOMAIN UpperAlpha : UpperAlpha[i] = c]
    ELSE c

upper(s) == [i \in DOMAIN s |-> upper_char(s[i])]

lower(s) == [i \in DOMAIN s |-> lower_char(s[i])]

RECURSIVE lstrip(_)
lstrip(s) ==
    IF s # <<>> /\ Head(s) \in Whitespace THEN lstrip(Tail(s)) ELSE s

RECURSIVE rstrip(_)
rstrip(s) ==
    IF s # <<>> /\ s[Len(s)] \in Whitespace
    THEN rstrip(SubSeq(s, 1, Len(s) - 1))
    ELSE s

strip(s) == rstrip(lstrip(s))

\* A missing cell (float NaN); its one element is not a character, so it
\* differs from every string.
NaN == <<"NaN">>

\* astype(str): a missing cell becomes the text "nan", text stays as it is.
astype_str(v) == IF v = NaN THEN <<"n","a","n">> ELSE v

----------------------------------------------------------------------------
\* Configuration

STATUS_FLAG_MAPPING ==
    [ spec_done_cnt    |-> {<<"s","p","e","c">>},
      etl_done_cnt     |-> {<<"e","t","l">>},
      qa_done_cnt      |-> {<<"q","a">>},
      acc_done_cnt     |-> {<<"a","c","c">>},
      prod_done_cnt    |-> {<<"p","r","o","d">>},
      spec_in_pgrs_cnt |-> {},
      etl_in_pgrs_cnt  |-> {},
      qa_in_pgrs_cnt   |-> {} ]

FlagCols == DOMAIN STATUS_FLAG_MAPPING

DoneCols == {"spec_done_cnt", "etl_done_cnt", "qa_done_cnt", "acc_done_cnt",
             "prod_done_cnt"}

----------------------------------------------------------------------------
\* normalize_and_derive_flags

EmptyFrame == [cols |-> {}, rows |-> <<>>]

rename_map(d) ==
    [c \in d.cols \cap {"PRCS AREA CODE", "Dev Group Name", "Status", "Status Name"} |->
        CASE c = "PRCS AREA CODE" -> "project"
          [] c = "Dev Group Name" -> "dev_grp_name"
          [] c = "Status"         -> "status_raw"
          [] c = "Status Name"    -> "status_name_raw"]

rename(d, m) ==
    LET newname(c) == IF c \in DOMAIN m THEN m[c] ELSE c
        newcols    == {newname(c) : c \in d.cols}
        old(c2)    == CHOOSE c \in d.cols : newname(c) = c2
    IN  [cols |-> newcols,
         rows |-> [i \in DOMAIN d.rows |-> [c2 \in newcols |-> d.rows[i][old(c2)]]]]

\* Variant: reads the derived lower-case column when the table has one.
status_series_derived(d, r) ==
    IF "status_code_norm" \in d.cols THEN r["status_code_norm"]
    ELSE IF "status_raw" \in d.cols THEN r["status_raw"]
    ELSE IF "status_name_raw" \in d.cols THEN r["status_name_raw"]
    ELSE <<>>

\* The status source of one row: status_raw, else status_name_raw, else "".
status_series(d, r) ==
    IF "status_raw" \in d.cols THEN r["status_raw"]
    ELSE IF "status_name_raw" \in d.cols THEN r["status_name_raw"]
    ELSE <<>>

replace_empties(s) ==
    IF s \in {<<"n","a","n">>, <<"N","a","N">>, <<"N","o","n","e">>, <<"n","o","n","e">>}
    THEN <<>>
    ELSE s

\* Variant: compares without folding the letter case.
mask_cnn_exact(s) == s = <<"C","N","N">>

mask_cnn(s) == upper(s) = <<"C","N","N">>

pend_where(s) ==
    IF s \in {<<"?">>, <<>>, <<" ">>} THEN <<"P","E","N","D">> ELSE s

\* Variant: trims without lower-casing.
status_code_norm_nolower(s) == strip(s)

status_code_norm(s) == strip(lower(s))

flag_value(flag_col, norm) ==
    LET codes == STATUS_FLAG_MAPPING[flag_col]
    IN  IF codes = {} THEN 0
        ELSE IF norm \in {lower(c) : c \in codes} THEN 1 ELSE 0

\* df[col] = series: assign (or overwrite) one column from a series that
\* has one value for each row.
with_column(d, col, series) ==
    [cols |-> d.cols \cup {col},
     rows |-> [i \in DOMAIN d.rows |->
                 [c \in d.cols \cup {col} |->
                     IF c = col THEN series[i] ELSE d.rows[i][c]]]]

RECURSIVE with_flags(_, _)
with_flags(d, todo) ==
    IF todo = {} THEN d
    ELSE LET f == CHOOSE x \in todo : TRUE
             v == [i \in DOMAIN d.rows |-> flag_value(f, d.rows[i]["status_code_norm"])]
         IN  with_flags(with_column(d, f, v), todo \ {f})

normalize_and_derive_flags(d0) ==
    LET d1 == rename(d0, rename_map(d0))
        code == [i \in DOMAIN d1.rows |->
                    replace_empties(strip(astype_str(status_series(d1, d1.rows[i]))))]
        d2 == with_column(d1, "status_code", code)
        keep(r) == ~mask_cnn(r["status_code"])
        d3 == [cols |-> d2.cols, rows |-> SelectSeq(d2.rows, keep)]
        pend == [i \in DOMAIN d3.rows |-> pend_where(d3.rows[i]["status_code"])]
        d4 == with_column(d3, "status_code", pend)
        norm == [i \in DOMAIN d4.rows |-> status_code_norm(d4.rows[i]["status_code"])]
        d5 == with_column(d4, "status_code_norm", norm)
    IN  with_flags(d5, FlagCols)

----------------------------------------------------------------------------
\* clean_and_filter

\* A filter argument: None, or a list given as the set of its values.
NoFilter == [given |-> FALSE, vals |-> {}]
Allow(S) == [given |-> TRUE, vals |-> S]

\* Variant: an empty list counts as a filter.
truthy_given(f) == f.given

truthy(f) == f.given /\ f.vals # {}

clean_and_filter_raises(d0, dev_grp_filter, project_filter) ==
    LET d == normalize_and_derive_flags(d0)
    IN  \/ truthy(dev_grp_filter) /\ "dev_grp_name" \notin d.cols
        \/ truthy(project_filter) /\ "project" \notin d.cols

clean_and_filter(d0, dev_grp_filter, project_filter) ==
    LET d == normalize_and_derive_flags(d0)
        in_dev(r)  == r["dev_grp_name"] \in dev_grp_filter.vals
        in_proj(r) == r["project"] \in project_filter.vals
        d1 == IF truthy(dev_grp_filter)
              THEN [cols |-> d.cols, rows |-> SelectSeq(d.rows, in_dev)]
              ELSE d
    IN  IF truthy(project_filter)
        THEN [cols |-> d1.cols, rows |-> SelectSeq(d1.rows, in_proj)]
        ELSE d1

----------------------------------------------------------------------------
\* build_summary and the per-dev-group rollup

\* Sum of one column over the rows of a sequence.
RECURSIVE SumCol(_, _)
SumCol(rows, col) ==
    IF rows = <<>> THEN 0 ELSE Head(rows)[col] + SumCol(Tail(rows), col)

SummaryInputCols == {"project", "dev_grp_name"} \cup FlagCols

build_summary_raises(d) == ~(SummaryInputCols \subseteq d.cols)

\* Variant: keys with a missing part never form a group.
group_keys_dropna(d, dropna) ==
    LET all == {<<d.rows[i]["project"], d.rows[i]["dev_grp_name"]>> : i \in DOMAIN d.rows}
    IN  {k \in all : k[1] # NaN /\ k[2] # NaN}

\* The keys groupby keeps; dropna decides whether a key with a missing part
\* forms a group.
group_keys(d, dropna) ==
    LET all == {<<d.rows[i]["project"], d.rows[i]["dev_grp_name"]>> : i \in DOMAIN d.rows}
    IN  IF dropna THEN {k \in all : k[1] # NaN /\ k[2] # NaN} ELSE all

\* The summary table as the set of its rows (groupby's row order carries no
\* meaning for the rollups).
build_summary(d) ==
    LET in_group(k, r) == r["project"] = k[1] /\ r["dev_grp_name"] = k[2]
        size(k) == LET t(r) == in_group(k, r) IN Len(SelectSeq(d.rows, t))
        sum(k, col) == LET t(r) == in_group(k, r) IN SumCol(SelectSeq(d.rows, t), col)
    IN  {[project      |-> k[1],
          dev_grp_name |-> k[2],
          total        |-> size(k),
          spec_in_pgrs |-> sum(k, "spec_in_pgrs_cnt"),
          spec_done    |-> sum(k, "spec_done_cnt"),
          etl_in_pgrs  |-> sum(k, "etl_in_pgrs_cnt"),
          etl_done     |-> sum(k, "etl_done_cnt"),
          qa_in_pgrs   |-> sum(k, "qa_in_pgrs_cnt"),
          qa_done      |-> sum(k, "qa_done_cnt"),
          acc_done     |-> sum(k, "acc_done_cnt"),
          prod_done    |-> sum(k, "prod_done_cnt")] : k \in group_keys(d, FALSE)}

RECURSIVE SumField(_, _)
SumField(S, field) ==
    IF S = {} THEN 0
    ELSE LET x == CHOOSE y \in S : TRUE
         IN  x[field] + SumField(S \ {x}, field)

\* summary.groupby("dev_grp_name", as_index=False): dropna keeps its default.
rollup_by_group(s) ==
    LET names == {x.dev_grp_name : x \in s} \ {NaN}
        of(n) == {x \in s : x.dev_grp_name = n}
    IN  {[dev_grp_name |-> n,
          total        |-> SumField(of(n), "total"),
          prod_done    |-> SumField(of(n), "prod_done"),
          qa_done      |-> SumField(of(n), "qa_done"),
          acc_done     |-> SumField(of(n), "acc_done")] : n \in names}

\* DataFrame.empty: no rows or no columns.
is_empty(d) == d.rows = <<>> \/ d.cols = {}

\* sorted(col.dropna().unique()) as the set of options of a multiselect.
options(d, col) ==
    IF col \in d.cols THEN {d.rows[i][col] : i \in DOMAIN d.rows} \ {NaN} ELSE {}

----------------------------------------------------------------------------
\* Input tables

P1 == <<"P","1">>
P2 == <<"P","2">>
G1 == <<"G","1">>

\* Status cells met in exports: codes in several letter cases, padded text,
\* placeholders, null-like text, missing cells, and an unmapped code.
StatusValues ==
    { <<"C","N","N">>, <<" ","c","n","n"," ">>,
      <<>>, <<" ">>, <<"?">>, NaN,
      <<"n","a","n">>, <<"N","A","N">>, <<"N","o","n","e">>,
      <<"E","T","L">>, <<"q","a"," ">>, <<"P","r","o","d">>,
      <<"s","p","e","c">>, <<"a","c","c">>, <<"P","E","N","D">>,
      <<"H","O","L","D">> }

\* The cells tried under the Status Name column.
StatusNameValues ==
    { <<" ","c","n","n"," ">>, NaN, <<"N","A","N">>, <<"E","T","L">>,
      <<"?">>, <<"q","a"," ">> }

KeyStatusValues == { <<"P","R","O","D">>, <<"C","N","N">>, <<"?">> }

\* A pass-through column that names the row: row i carries i letters "j".
job(i) == [k \in 1..i |-> "j"]

MkRow(cols, i, ch) ==
    [c \in cols |->
        CASE c = "Job Name"       -> job(i)
          [] c = "PRCS AREA CODE" -> ch[1]
          [] c = "Dev Group Name" -> ch[2]
          [] c = "Status"         -> ch[3]
          [] c = "Status Name"    -> ch[4]]

TablesOf(cols, Choices) ==
    UNION { { [cols |-> cols, rows |-> [i \in 1..n |-> MkRow(cols, i, f[i])]]
              : f \in [1..n -> Choices] } : n \in 0..MaxRows }

KeyCols == {"Job Name", "PRCS AREA CODE", "Dev Group Name"}

\* Every status value under Status, a selection under Status Name alone,
\* and both columns together.
StatusTables ==
    TablesOf(KeyCols \cup {"Status"}, {P1} \X {G1} \X StatusValues \X {NaN})
    \cup TablesOf(KeyCols \cup {"Status Name"}, {P1} \X {G1} \X {NaN} \X StatusNameValues)
    \cup TablesOf(KeyCols \cup {"Status", "Status Name"},
                  {P1} \X {G1} \X {<<"Q","A">>, <<"C","N","N">>, NaN}
                       \X {<<"C","N","N">>, <<"e","t","l">>})

\* Every combination of present columns, with several projects and groups
\* and missing keys.
KeyTables ==
    UNION { TablesOf({"Job Name"} \cup X,
                     (IF "PRCS AREA CODE" \in X THEN {P1, P2, NaN} ELSE {NaN})
                     \X (IF "Dev Group Name" \in X THEN {G1, NaN} ELSE {NaN})
                     \X (IF "Status" \in X THEN KeyStatusValues ELSE {NaN})
                     \X {NaN})
            : X \in SUBSET {"PRCS AREA CODE", "Dev Group Name", "Status"} }

----------------------------------------------------------------------------
\* load_df and its memoization

None == 0
NoFile == 0
Datasets == 1..NumDatasets

\* pd.read_csv of a file content; pd.DataFrame() is the frame of no content.
read_csv(content) == [frame_of |-> content]
EmptyDF == [frame_of |-> NoFile]

\* The body of load_df: the value returned and the file content it leaves.
load_df(uploaded_file, file) ==
    IF uploaded_file # None
    THEN [ret |-> read_csv(uploaded_file), file |-> uploaded_file]
    ELSE IF file # NoFile
         THEN [ret |-> read_csv(file), file |-> file]
         ELSE [ret |-> EmptyDF, file |-> file]

\* st.cache_data: a call whose argument has an entry returns the entry and
\* does not run the body.
cached_load_df(u) ==
    /\ uploaded' = u
    /\ IF u \in DOMAIN cache
       THEN /\ returned' = cache[u]
            /\ UNCHANGED <<cache, reserved_csv>>
       ELSE LET res == load_df(u, reserved_csv)
            IN  /\ returned' = res.ret
                /\ reserved_csv' = res.file
                /\ cache' = (u :> res.ret) @@ cache

----------------------------------------------------------------------------
\* The script run

PipeInit ==
    /\ pc = "loaded"
    /\ loaded \in StatusTables \cup KeyTables
    /\ df_raw = loaded
    /\ projects = {}
    /\ group_names = {}
    /\ proj_sel = {}
    /\ dev_sel = {}
    /\ df = EmptyFrame
    /\ summary = {}
    /\ summary_by_group = {}

LoadIdle ==
    /\ reserved_csv = NoFile
    /\ cache = <<>>
    /\ uploaded = None
    /\ returned = EmptyDF
    /\ last_supplied = None

Init == PipeInit /\ LoadIdle

\* Lines 175-177
StopEmpty ==
    /\ pc = "loaded"
    /\ is_empty(df_raw)
    /\ pc' = "stopped"
    /\ UNCHANGED <<loaded, df_raw, projects, group_names, proj_sel, dev_sel, df,
                   summary, summary_by_group>>
    /\ UNCHANGED loadVars

\* Lines 180-183
Normalize ==
    /\ pc = "loaded"
    /\ ~is_empty(df_raw)
    /\ df_raw' = normalize_and_derive_flags(df_raw)
    /\ projects' = options(df_raw', "project")
    /\ group_names' = options(df_raw', "dev_grp_name")
    /\ pc' = "normalized"
    /\ UNCHANGED <<loaded, proj_sel, dev_sel, df, summary, summary_by_group>>
    /\ UNCHANGED loadVars

\* Lines 185-188
Filter ==
    /\ pc = "normalized"
    /\ \E ps \in SUBSET projects, ds \in SUBSET group_names :
          /\ proj_sel' = ps
          /\ dev_sel' = ds
          /\ IF clean_and_filter_raises(df_raw, Allow(ds), Allow(ps))
             THEN pc' = "fault" /\ df' = df
             ELSE pc' = "filtered" /\ df' = clean_and_filter(df_raw, Allow(ds), Allow(ps))
    /\ UNCHANGED <<loaded, df_raw, projects, group_names, summary, summary_by_group>>
    /\ UNCHANGED loadVars

\* Line 189
Summarize ==
    /\ pc = "filtered"
    /\ IF build_summary_raises(df)
       THEN pc' = "fault" /\ summary' = summary
       ELSE pc' = "summarized" /\ summary' = build_summary(df)
    /\ UNCHANGED <<loaded, df_raw, projects, group_names, proj_sel, dev_sel, df,
                   summary_by_group>>
    /\ UNCHANGED loadVars

\* Lines 238-246
Rollup ==
    /\ pc = "summarized"
    /\ summary_by_group' = rollup_by_group(summary)
    /\ pc' = "done"
    /\ UNCHANGED <<loaded, df_raw, projects, group_names, proj_sel, dev_sel, df,
                   summary>>
    /\ UNCHANGED loadVars

Next == StopEmpty \/ Normalize \/ Filter \/ Summarize \/ Rollup

Spec == Init /\ [][Next]_vars

----------------------------------------------------------------------------
\* Successive runs of line 173, with or without an upload

LoadInit ==
    /\ pc = "idle"
    /\ loaded = EmptyFrame
    /\ df_raw = EmptyFrame
    /\ projects = {}
    /\ group_names = {}
    /\ proj_sel = {}
    /\ dev_sel = {}
    /\ df = EmptyFrame
    /\ summary = {}
    /\ summary_by_group = {}
    /\ LoadIdle

LoadUploaded ==
    /\ \E u \in Datasets :
          /\ cached_load_df(u)
          /\ last_supplied' = u
    /\ UNCHANGED pipeVars

LoadNoUpload ==
    /\ cached_load_df(None)
    /\ UNCHANGED last_supplied
    /\ UNCHANGED pipeVars

LoadNext == LoadUploaded \/ LoadNoUpload

LoadSpec == LoadInit /\ [][LoadNext]_vars

----------------------------------------------------------------------------
\* Properties

AfterNormalize == {"normalized", "filtered", "summarized", "done", "fault"}
AfterFilter == {"filtered", "summarized", "done"}
AfterSummary == {"summarized", "done"}

\* The status of a row of the loaded table: Status, else Status Name, else
\* empty, coerced to text and trimmed.
RawStatus(t, r) ==
    strip(astype_str(IF "Status" \in t.cols THEN r["Status"]
                     ELSE IF "Status Name" \in t.cols THEN r["Status Name"]
                     ELSE <<>>))

IsCnn(t, r) == upper(RawStatus(t, r)) = <<"C","N","N">>

IsNullLike(t, r) ==
    \/ RawStatus(t, r) \in {<<>>, <<"?">>}
    \/ lower(RawStatus(t, r)) \in {<<"n","a","n">>, <<"n","o","n","e">>}

HasJob(d, name) == \E j \in DOMAIN d.rows : d.rows[j]["Job Name"] = name

AllDoneFlagsZero(r) == \A f \in DoneCols : r[f] = 0

\* C1: a loaded row whose trimmed status is "CNN" in any letter case is in
\* neither the normalized table nor the filtered table, and no Group Summary
\* total counts it.
C1_CnnRowsAbsent ==
    pc \in AfterNormalize =>
        /\ \A i \in DOMAIN loaded.rows :
              IsCnn(loaded, loaded.rows[i]) =>
                 /\ ~HasJob(df_raw, loaded.rows[i]["Job Name"])
                 /\ ~HasJob(df, loaded.rows[i]["Job Name"])
        /\ pc \in AfterSummary =>
              \A s \in summary :
                 s.total <= Cardinality({i \in DOMAIN loaded.rows :
                                 /\ ~IsCnn(loaded, loaded.rows[i])
                                 /\ loaded.rows[i]["PRCS AREA CODE"] = s.project
                                 /\ loaded.rows[i]["Dev Group Name"] = s.dev_grp_name})

\* A padded lower-case " cnn " row was dropped while another row went on to
\* the summary.
C1_Witness ==
    /\ pc = "done"
    /\ \E i \in DOMAIN loaded.rows :
          /\ "Status" \in loaded.cols
          /\ loaded.rows[i]["Status"] = <<" ","c","n","n"," ">>
    /\ Len(df.rows) = 1
    /\ \E s \in summary : s.total = 1

\* C2: every loaded row whose status is empty, blank, "?", missing or
\* nan/none in any letter case comes out with status PEND and all five done
\* flags 0.
C2_NullLikeBecomesPend ==
    pc \in AfterNormalize =>
        \A i \in DOMAIN loaded.rows :
           IsNullLike(loaded, loaded.rows[i]) =>
              \E j \in DOMAIN df_raw.rows :
                 /\ df_raw.rows[j]["Job Name"] = loaded.rows[i]["Job Name"]
                 /\ df_raw.rows[j]["status_code"] = <<"P","E","N","D">>
                 /\ AllDoneFlagsZero(df_raw.rows[j])

FlagsFollowMapping(r) ==
    /\ \A f \in FlagCols :
          /\ r[f] \in {0, 1}
          /\ r[f] = 1 <=> lower(r["status_code"]) \in STATUS_FLAG_MAPPING[f]
    /\ Cardinality({f \in DoneCols : r[f] = 1}) <= 1

\* C3: in every output row each flag is 1 exactly when the lower-cased
\* canonical status is one of the flag's codes, and at most one done flag
\* is set.
C3_FlagsFollowMapping ==
    pc \in AfterNormalize =>
        /\ \A j \in DOMAIN df_raw.rows : FlagsFollowMapping(df_raw.rows[j])
        /\ \A j \in DOMAIN df.rows : FlagsFollowMapping(df.rows[j])

\* An upper-case "ETL" row has exactly etl_done_cnt set, next to an
\* unmapped "HOLD" row with no flag.
C3_Witness ==
    /\ pc = "normalized"
    /\ \E j \in DOMAIN df_raw.rows :
          /\ df_raw.rows[j]["status_code"] = <<"E","T","L">>
          /\ \A f \in FlagCols : df_raw.rows[j][f] = (IF f = "etl_done_cnt" THEN 1 ELSE 0)
    /\ \E j \in DOMAIN df_raw.rows :
          /\ df_raw.rows[j]["status_code"] = <<"H","O","L","D">>
          /\ \A f \in FlagCols : df_raw.rows[j][f] = 0

PairOf(r) == <<r["project"], r["dev_grp_name"]>>

\* C4: the summary has exactly one row for each (project, dev_grp_name) pair
\* of the filtered table, missing keys included; its total is the number of
\* filtered rows with that pair and is at least each flag count.
C4_SummaryPerPair ==
    pc \in AfterSummary =>
        LET pairs == {PairOf(df.rows[i]) : i \in DOMAIN df.rows}
        IN  /\ {<<s.project, s.dev_grp_name>> : s \in summary} = pairs
            /\ Cardinality(summary) = Cardinality(pairs)
            /\ \A s \in summary :
                  /\ s.total = Cardinality({i \in DOMAIN df.rows :
                                    PairOf(df.rows[i]) = <<s.project, s.dev_grp_name>>})
                  /\ s.total >= s.spec_done /\ s.total >= s.etl_done
                  /\ s.total >= s.qa_done /\ s.total >= s.acc_done
                  /\ s.total >= s.prod_done

\* Two groups, one of them with a missing group name, one with a done count.
C4_Witness ==
    /\ pc = "summarized"
    /\ Cardinality(summary) = 2
    /\ \E s \in summary : s.dev_grp_name = NaN /\ s.total = 1
    /\ \E s \in summary : s.dev_grp_name = G1 /\ s.prod_done = 1

\* C5: an empty selection filters nothing, exactly as an omitted filter; a
\* non-empty one keeps exactly the member rows; two non-empty ones keep the
\* rows that satisfy both.
C5_FilterSemantics ==
    pc \in AfterFilter =>
        LET base == normalize_and_derive_flags(df_raw)
            pass(r) == /\ dev_sel # {} => r["dev_grp_name"] \in dev_sel
                       /\ proj_sel # {} => r["project"] \in proj_sel
        IN  /\ df.cols = base.cols
            /\ df.rows = SelectSeq(base.rows, pass)
            /\ dev_sel = {} => df = clean_and_filter(df_raw, NoFilter, Allow(proj_sel))
            /\ proj_sel = {} => df = clean_and_filter(df_raw, Allow(dev_sel), NoFilter)

\* An empty group selection next to a project selection that removed a row
\* and kept one.
C5_Witness ==
    /\ pc = "filtered"
    /\ dev_sel = {}
    /\ proj_sel = {P1}
    /\ Len(df_raw.rows) = 2
    /\ Len(df.rows) = 1

\* C6: the file at RESERVED_CSV_PATH holds the most recently supplied upload.
C6_SavedIsLatestUpload ==
    last_supplied # None => reserved_csv = last_supplied

\* C7: a call without an upload returns the persisted dataset if there is
\* one, and the empty dataset only if there is none.
C7_NoUploadReturnsPersisted ==
    uploaded = None =>
        returned = (IF reserved_csv # NoFile THEN read_csv(reserved_csv) ELSE EmptyDF)

ExpectedColumnsPresent(t) ==
    /\ "PRCS AREA CODE" \in t.cols
    /\ "Dev Group Name" \in t.cols
    /\ ("Status" \in t.cols \/ "Status Name" \in t.cols)

\* C8: a non-empty table that lacks an expected column goes through
\* normalize, filter and summary without a fault.
C8_MissingColumnsNoFault ==
    (~is_empty(loaded) /\ ~ExpectedColumnsPresent(loaded)) => pc # "fault"

\* C9: normalizing the normalized table changes nothing: same rows, same
\* canonical status, same flags; the second pass inside clean_and_filter
\* with nothing selected returns the table of the first pass.
C9_NormalizeIdempotent ==
    /\ pc \in AfterNormalize => normalize_and_derive_flags(df_raw) = df_raw
    /\ (pc \in AfterFilter /\ dev_sel = {} /\ proj_sel = {}) => df = df_raw

\* The first pass dropped a CNN row and turned "?" into PEND; the second
\* pass returned the same one-row table.
C9_Witness ==
    /\ pc = "filtered"
    /\ dev_sel = {} /\ proj_sel = {}
    /\ Len(loaded.rows) = 2
    /\ Len(df.rows) = 1
    /\ df.rows[1]["status_raw"] = <<"?">>
    /\ df.rows[1]["status_code"] = <<"P","E","N","D">>

\* C10: the summary totals add up to the number of filtered rows; the
\* rollup has one row for each dev_grp_name of the summary, a missing name
\* included, whose total is the sum over the summary rows of that name, so
\* the rollup totals add up to the number of filtered rows too.
C10_RollupConservesRows ==
    pc = "done" =>
        LET names == {s.dev_grp_name : s \in summary}
        IN  /\ SumField(summary, "total") = Len(df.rows)
            /\ {g.dev_grp_name : g \in summary_by_group} = names
            /\ Cardinality(summary_by_group) = Cardinality(names)
            /\ \A g \in summary_by_group :
                  g.total = SumField({s \in summary : s.dev_grp_name = g.dev_grp_name},
                                     "total")
            /\ SumField(summary_by_group, "total") = Len(df.rows)

====
